---------------------------- MODULE Spec2Model ----------------------------
(***************************************************************************)
(* Model of the Akai MPD218 control device driver                          *)
(* (zynthian_ctrldev_akai_mpd_218.py).                                     *)
(*                                                                         *)
(* The driver receives 3-byte MIDI events (midi_event), decodes pad notes  *)
(* into grid coordinates (get_note_xy), toggles sequences (note_on),       *)
(* tracks the held note (currentNotePressed), launches a "scene" on        *)
(* maximum channel pressure (pressureChange) and maps dials to mixer       *)
(* levels (cc_change).  The sequencer (zynseq) and the mixer (zynmixer)    *)
(* are collaborators: every call made to them while one event is handled   *)
(* is logged, in order, in the variable calls.                             *)
(***************************************************************************)
EXTENDS Integers, Sequences, FiniteSets

VARIABLES
    currentNotePressed, \* the driver's only field: held note, or -1
    bank,               \* zynseq.bank, the sequencer's selected bank
    col_in_bank,        \* zynseq.col_in_bank, side of the sequencer's pad grid
    ev,                 \* the MIDI event handled last (<<>> before the first)
    calls,              \* collaborator calls made while handling ev, in order
    lastOnOff,          \* history: <<"none">>, <<"on", n>> or <<"off", n>>,
                        \* the most recent note-on/note-off event received
    launched            \* history: <<k, c>>, the number k of maximum-pressure
                        \* events since the most recent note-on/note-off and
                        \* the number c of setPlayState calls they made

vars == <<currentNotePressed, bank, col_in_bank, ev, calls, lastOnOff, launched>>

---------------------------------------------------------------------------
(* Bounds of the model *)

MaxBank == 2          \* sequencer banks 1..MaxBank
MaxColInBank == 4     \* sequencer grids 1x1 .. MaxColInBank x MaxColInBank
MaxLaunches == 2      \* maximum-pressure events followed per held note

---------------------------------------------------------------------------
(* Class constants *)

PAD_BANK_A_NOTE_PAD_START == 36
PAD_BANK_B_NOTE_PAD_START == 52
PAD_BANK_C_NOTE_PAD_START == 68

PAD_BANK_A_NOTE_PAD_END == 51
PAD_BANK_B_NOTE_PAD_END == 67
PAD_BANK_C_NOTE_PAD_END == 83

CTRL_BANK_A_NOTE_DIAL_START == 3
CTRL_BANK_B_NOTE_DIAL_START == 16
CTRL_BANK_C_NOTE_DIAL_START == 22

CTRL_BANK_A_NOTE_DIAL_END == 15
CTRL_BANK_B_NOTE_DIAL_END == 21
CTRL_BANK_C_NOTE_DIAL_END == 27

MAX_DIAL == 127
MAX_PRESSURE == 127

PADS_IN_ROW == 4
PADS_IN_COLUMN == 4

\* CONST.MIDI_* of zynthian_ctrldev_base_extended: channel-voice type nibbles
MIDI_NOTE_OFF == 8
MIDI_NOTE_ON == 9
MIDI_CC == 11
MIDI_CHANNEL_PRESSURE == 13

---------------------------------------------------------------------------
(* Collaborators *)

\* zynseq.get_pad_from_xy: the pad index at a grid coordinate of the
\* sequencer's col_in_bank x col_in_bank grid, negative when there is none.
get_pad_from_xy(col, row) ==
    IF col < col_in_bank /\ row < col_in_bank
    THEN row + col * col_in_bank
    ELSE -1

\* The entries of the call log.
GetPadFromXY(col, row) == <<"get_pad_from_xy", col, row>>
TogglePlayState(b, pad) == <<"togglePlayState", b, pad>>
SetPlayState(b, pad, state) == <<"setPlayState", b, pad, state>>
\* the level is the quotient num / den, kept as an exact ratio
SetLevel(channel, num, den) == <<"set_level", channel, num, den>>

---------------------------------------------------------------------------
(* Note decoder *)

\* Variant of get_note_xy that forgets to invert the row (top to bottom).
get_note_xy_rowNotInverted(note) ==
    LET off == IF 36 <= note /\ note <= 51 THEN 36
               ELSE IF 52 <= note /\ note <= 67 THEN 52
               ELSE IF 68 <= note /\ note <= 83 THEN 68
               ELSE 0
        bk == IF 36 <= note /\ note <= 51 THEN "A"
              ELSE IF 52 <= note /\ note <= 67 THEN "B"
              ELSE IF 68 <= note /\ note <= 83 THEN "C"
              ELSE ""
    IN  <<(note - off) % 4, (note - off) \div 4, bk>>

\* Variant of get_note_xy whose bank B branch takes bank A's start offset.
get_note_xy_wrongOffsetB(note) ==
    LET off == IF 36 <= note /\ note <= 67 THEN 36
               ELSE IF 68 <= note /\ note <= 83 THEN 68
               ELSE 0
        bk == IF 36 <= note /\ note <= 51 THEN "A"
              ELSE IF 52 <= note /\ note <= 67 THEN "B"
              ELSE IF 68 <= note /\ note <= 83 THEN "C"
              ELSE ""
    IN  <<(note - off) % 4, 4 - ((note - off) \div 4) - 1, bk>>

\* Variant of get_note_xy whose offset defaults to bank A's start, not 0.
get_note_xy_defaultOffsetA(note) ==
    LET off == IF 52 <= note /\ note <= 67 THEN 52
               ELSE IF 68 <= note /\ note <= 83 THEN 68
               ELSE 36
        bk == IF 36 <= note /\ note <= 51 THEN "A"
              ELSE IF 52 <= note /\ note <= 67 THEN "B"
              ELSE IF 68 <= note /\ note <= 83 THEN "C"
              ELSE ""
    IN  <<(note - off) % 4, 4 - ((note - off) \div 4) - 1, bk>>

\* get_note_xy(note) = <<col, row, bank>>.  The three range tests are
\* independent ifs executed in order; a later match overwrites an earlier.
get_note_xy(note) ==
    LET a == IF PAD_BANK_A_NOTE_PAD_START <= note /\ note <= PAD_BANK_A_NOTE_PAD_END
             THEN <<"A", PAD_BANK_A_NOTE_PAD_START>>
             ELSE <<"", 0>>
        b == IF PAD_BANK_B_NOTE_PAD_START <= note /\ note <= PAD_BANK_B_NOTE_PAD_END
             THEN <<"B", PAD_BANK_B_NOTE_PAD_START>>
             ELSE a
        c == IF PAD_BANK_C_NOTE_PAD_START <= note /\ note <= PAD_BANK_C_NOTE_PAD_END
             THEN <<"C", PAD_BANK_C_NOTE_PAD_START>>
             ELSE b
        note_start_offset == c[2]
        row == 4 - ((note - note_start_offset) \div PADS_IN_ROW) - 1
        col == (note - note_start_offset) % PADS_IN_COLUMN
    IN  <<col, row, c[1]>>

---------------------------------------------------------------------------
(* Handlers.  Each sets the driver's field and the call log of the event. *)

\* Variant of note_on without the pad >= 0 guard.
note_on_unguarded(note, channel, velocity) ==
    LET xy == get_note_xy(note)
        pad == get_pad_from_xy(xy[1], xy[2])
    IN  /\ currentNotePressed' = note
        /\ calls' = <<GetPadFromXY(xy[1], xy[2]), TogglePlayState(bank, pad)>>

\* Variant of note_on that records the held note only for a note of a bank.
note_on_rangeChecked(note, channel, velocity) ==
    LET xy == get_note_xy(note)
        pad == get_pad_from_xy(xy[1], xy[2])
    IN  /\ currentNotePressed' = IF xy[3] = "" THEN currentNotePressed ELSE note
        /\ calls' = IF pad >= 0
                    THEN <<GetPadFromXY(xy[1], xy[2]), TogglePlayState(bank, pad)>>
                    ELSE <<GetPadFromXY(xy[1], xy[2])>>

\* Variant of note_on that records the held note only when it toggles a pad.
note_on_recordsOnlyToggled(note, channel, velocity) ==
    LET xy == get_note_xy(note)
        pad == get_pad_from_xy(xy[1], xy[2])
    IN  /\ currentNotePressed' = IF pad >= 0 THEN note ELSE currentNotePressed
        /\ calls' = IF pad >= 0
                    THEN <<GetPadFromXY(xy[1], xy[2]), TogglePlayState(bank, pad)>>
                    ELSE <<GetPadFromXY(xy[1], xy[2])>>

note_on(note, channel, velocity) ==
    LET xy == get_note_xy(note)
        col == xy[1]
        row == xy[2]
        pad == get_pad_from_xy(col, row)
    IN  /\ currentNotePressed' = note
        /\ calls' = IF pad >= 0
                    THEN <<GetPadFromXY(col, row), TogglePlayState(bank, pad)>>
                    ELSE <<GetPadFromXY(col, row)>>

\* Variant of note_off that releases only the note that is held.
note_off_matching(note, channel) ==
    /\ currentNotePressed' = IF note = currentNotePressed THEN -1 ELSE currentNotePressed
    /\ calls' = <<>>

\* Variant of note_off that toggles the released pad again.
note_off_retoggle(note, channel) ==
    LET xy == get_note_xy(note)
        pad == get_pad_from_xy(xy[1], xy[2])
    IN  /\ currentNotePressed' = -1
        /\ calls' = IF pad >= 0
                    THEN <<GetPadFromXY(xy[1], xy[2]), TogglePlayState(bank, pad)>>
                    ELSE <<GetPadFromXY(xy[1], xy[2])>>

note_off(note, channel) ==
    /\ currentNotePressed' = -1
    /\ calls' = <<>>

\* Variant of pressureChange that starts the scene one pad late.
pressureChange_offByOne(channel, pressure) ==
    /\ calls' = IF pressure = MAX_PRESSURE
                THEN << SetPlayState(bank, currentNotePressed + 1, 0),
                        SetPlayState(bank, currentNotePressed + 2, 0),
                        SetPlayState(bank, currentNotePressed + 3, 0),
                        SetPlayState(bank, currentNotePressed + 4, 0) >>
                ELSE <<>>
    /\ UNCHANGED currentNotePressed

\* Variant of pressureChange that triggers on any non-zero pressure.
pressureChange_anyPressure(channel, pressure) ==
    /\ calls' = IF pressure > 0
                THEN << SetPlayState(bank, currentNotePressed, 0),
                        SetPlayState(bank, currentNotePressed + 1, 0),
                        SetPlayState(bank, currentNotePressed + 2, 0),
                        SetPlayState(bank, currentNotePressed + 3, 0) >>
                ELSE <<>>
    /\ UNCHANGED currentNotePressed

\* Variant of pressureChange that releases the held note once it launched.
pressureChange_latched(channel, pressure) ==
    /\ calls' = IF pressure = MAX_PRESSURE
                THEN << SetPlayState(bank, currentNotePressed, 0),
                        SetPlayState(bank, currentNotePressed + 1, 0),
                        SetPlayState(bank, currentNotePressed + 2, 0),
                        SetPlayState(bank, currentNotePressed + 3, 0) >>
                ELSE <<>>
    /\ currentNotePressed' = IF pressure = MAX_PRESSURE THEN -1 ELSE currentNotePressed

pressureChange(channel, pressure) ==
    /\ calls' = IF pressure = MAX_PRESSURE
                THEN << SetPlayState(bank, currentNotePressed, 0),
                        SetPlayState(bank, currentNotePressed + 1, 0),
                        SetPlayState(bank, currentNotePressed + 2, 0),
                        SetPlayState(bank, currentNotePressed + 3, 0) >>
                ELSE <<>>
    /\ UNCHANGED currentNotePressed

\* Variant of mixer_channel_of whose bank C branch subtracts bank B's start.
mixer_channel_of_bankCOffset(ccnum) ==
    IF 22 <= ccnum /\ ccnum <= 27 THEN ccnum - 16
    ELSE IF 16 <= ccnum /\ ccnum <= 21 THEN ccnum - 16
    ELSE IF 13 <= ccnum /\ ccnum <= 15 THEN ccnum - 3
    ELSE IF ccnum = 12 THEN 2
    ELSE IF ccnum = 9 THEN 1
    ELSE IF ccnum = 3 THEN 0
    ELSE -1

\* Variant of mixer_channel_of that maps all of bank A by arithmetic.
mixer_channel_of_bankAArithmetic(ccnum) ==
    IF 22 <= ccnum /\ ccnum <= 27 THEN ccnum - 22
    ELSE IF 16 <= ccnum /\ ccnum <= 21 THEN ccnum - 16
    ELSE IF ccnum = 12 THEN 2
    ELSE IF ccnum = 9 THEN 1
    ELSE IF 3 <= ccnum /\ ccnum <= 15 THEN ccnum - 3
    ELSE -1

\* The mixer channel cc_change resolves for a CC number, -1 when none.
mixer_channel_of(ccnum) ==
    LET a == IF CTRL_BANK_A_NOTE_DIAL_START <= ccnum /\ ccnum <= CTRL_BANK_A_NOTE_DIAL_END
             THEN LET a1 == IF ccnum = 3 THEN 0 ELSE -1
                      a2 == IF ccnum = 9 THEN 1 ELSE a1
                      a3 == IF ccnum = 12 THEN 2 ELSE a2
                  IN  IF 13 <= ccnum /\ ccnum <= CTRL_BANK_A_NOTE_DIAL_END
                      THEN ccnum - CTRL_BANK_A_NOTE_DIAL_START
                      ELSE a3
             ELSE -1
        b == IF CTRL_BANK_B_NOTE_DIAL_START <= ccnum /\ ccnum <= CTRL_BANK_B_NOTE_DIAL_END
             THEN ccnum - CTRL_BANK_B_NOTE_DIAL_START
             ELSE a
    IN  IF CTRL_BANK_C_NOTE_DIAL_START <= ccnum /\ ccnum <= CTRL_BANK_C_NOTE_DIAL_END
        THEN ccnum - CTRL_BANK_C_NOTE_DIAL_START
        ELSE b

\* Variant of cc_change whose guard admits the sentinel (>= for >).
cc_change_admitsSentinel(ccnum, ccval) ==
    LET mixer_channel == mixer_channel_of(ccnum)
    IN  /\ calls' = IF mixer_channel >= -1
                    THEN <<SetLevel(mixer_channel, ccval, MAX_DIAL)>>
                    ELSE <<>>
        /\ UNCHANGED currentNotePressed

\* Variant of cc_change that divides with // (as its commented-out log does).
cc_change_floorDivision(ccnum, ccval) ==
    LET mixer_channel == mixer_channel_of(ccnum)
    IN  /\ calls' = IF mixer_channel > -1
                    THEN <<SetLevel(mixer_channel, ccval \div MAX_DIAL, 1)>>
                    ELSE <<>>
        /\ UNCHANGED currentNotePressed

cc_change(ccnum, ccval) ==
    LET mixer_channel == mixer_channel_of(ccnum)
    IN  /\ calls' = IF mixer_channel > -1
                    THEN <<SetLevel(mixer_channel, ccval, MAX_DIAL)>>
                    ELSE <<>>
        /\ UNCHANGED currentNotePressed

---------------------------------------------------------------------------
(* Dispatcher *)

\* Fields of a 3-byte event e = <<status, data1, data2>>
evtype_of(e) == (e[1] \div 16) % 16     \* (ev[0] >> 4) & 0x0F
data1_of(e) == e[2] % 128               \* ev[1] & 0x7F
data2_of(e) == e[3] % 128               \* ev[2] & 0x7F
channel_of(e) == e[1] % 16              \* ev[0] & 0x0F

\* Variant of midi_event that passes the data bytes on without the 0x7F mask.
midi_event_unmasked(e) ==
    LET evtype == evtype_of(e)
    IN  IF evtype = MIDI_NOTE_ON THEN note_on(e[2], channel_of(e), e[3])
        ELSE IF evtype = MIDI_NOTE_OFF THEN note_off(e[2], channel_of(e))
        ELSE IF evtype = MIDI_CC THEN cc_change(e[2], e[3])
        ELSE IF evtype = MIDI_CHANNEL_PRESSURE THEN pressureChange(channel_of(e), e[2])
        ELSE /\ calls' = <<>>
             /\ UNCHANGED currentNotePressed

midi_event(e) ==
    LET evtype == evtype_of(e)
        note == data1_of(e)
        velocity == data2_of(e)
        channel == channel_of(e)
    IN  IF evtype = MIDI_NOTE_ON THEN note_on(note, channel, velocity)
        ELSE IF evtype = MIDI_NOTE_OFF THEN note_off(note, channel)
        ELSE IF evtype = MIDI_CC THEN cc_change(data1_of(e), data2_of(e))
        ELSE IF evtype = MIDI_CHANNEL_PRESSURE THEN pressureChange(channel, note)
        ELSE /\ calls' = <<>>
             /\ UNCHANGED currentNotePressed

---------------------------------------------------------------------------
(* The events the transport delivers *)

Data7 == 0..127
\* 3-byte events of one type nibble on channels Ch, data bytes from D1 and D2
Events(type, Ch, D1, D2) ==
    {<<type * 16 + ch, d1, d2>> : ch \in Ch, d1 \in D1, d2 \in D2}

\* the pads of the device send on MIDI channel 10 (index 9)
PadChannel == {9}

\* type nibbles the dispatcher does not handle (here: pitch bend)
UnhandledTypes == {14}

\* samples used where a specification does not enumerate a whole byte
NoteSample == {0, 20, 36, 40, 51, 52, 83, 84, 127}
HeldSample == {20, 40}
PressureSample == {100, 127}
CCNumSample == {3, 28}

---------------------------------------------------------------------------
(* State machine *)

Init ==
    /\ currentNotePressed = -1
    /\ bank \in 1..MaxBank
    /\ col_in_bank \in 1..MaxColInBank
    /\ ev = <<>>
    /\ calls = <<>>
    /\ lastOnOff = <<"none">>
    /\ launched = <<0, 0>>

\* The transport delivers event e: the dispatcher handles it to completion.
\* The model follows at most MaxLaunches maximum-pressure events between two
\* note events.
IsMaxPressure(e) ==
    evtype_of(e) = MIDI_CHANNEL_PRESSURE /\ data1_of(e) = MAX_PRESSURE

Deliver(e) ==
    /\ IsMaxPressure(e) => launched[1] < MaxLaunches
    /\ midi_event(e)
    /\ ev' = e
    /\ lastOnOff' = IF evtype_of(e) = MIDI_NOTE_ON THEN <<"on", data1_of(e)>>
                    ELSE IF evtype_of(e) = MIDI_NOTE_OFF THEN <<"off", data1_of(e)>>
                    ELSE lastOnOff
    /\ launched' = IF evtype_of(e) \in {MIDI_NOTE_ON, MIDI_NOTE_OFF} THEN <<0, 0>>
                   ELSE IF IsMaxPressure(e)
                   THEN <<launched[1] + 1,
                          launched[2] + Cardinality({i \in 1..Len(calls') :
                                                        calls'[i][1] = "setPlayState"})>>
                   ELSE launched
    /\ UNCHANGED <<bank, col_in_bank>>

HandledTypes == {MIDI_NOTE_ON, MIDI_NOTE_OFF, MIDI_CC, MIDI_CHANNEL_PRESSURE}

\* Spec: a note-on of every note; sampled note-offs, pressures and dials
NoteOnEvent ==
    \E e \in Events(MIDI_NOTE_ON, PadChannel, Data7, {100}) :
        evtype_of(e) = MIDI_NOTE_ON /\ Deliver(e)
NoteOffEvent ==
    \E e \in Events(MIDI_NOTE_OFF, PadChannel, NoteSample, {0}) :
        evtype_of(e) = MIDI_NOTE_OFF /\ Deliver(e)
CCEvent ==
    \E e \in Events(MIDI_CC, PadChannel, CCNumSample, {64}) :
        evtype_of(e) = MIDI_CC /\ Deliver(e)
PressureEvent ==
    \E e \in Events(MIDI_CHANNEL_PRESSURE, PadChannel, PressureSample, {0}) :
        evtype_of(e) = MIDI_CHANNEL_PRESSURE /\ Deliver(e)
OtherEvent ==
    \E t \in UnhandledTypes : \E e \in Events(t, PadChannel, {0}, {64}) :
        evtype_of(e) \notin HandledTypes /\ Deliver(e)

Next == NoteOnEvent \/ NoteOffEvent \/ CCEvent \/ PressureEvent \/ OtherEvent

Spec == Init /\ [][Next]_vars

\* SpecCC: a dial event of every CC number; sampled notes and pressures
DialNoteOn ==
    \E e \in Events(MIDI_NOTE_ON, PadChannel, HeldSample, {100}) :
        evtype_of(e) = MIDI_NOTE_ON /\ Deliver(e)
DialNoteOff ==
    \E e \in Events(MIDI_NOTE_OFF, PadChannel, {40}, {0}) :
        evtype_of(e) = MIDI_NOTE_OFF /\ Deliver(e)
DialCC ==
    \E e \in Events(MIDI_CC, PadChannel, Data7, {0, 127}) :
        evtype_of(e) = MIDI_CC /\ Deliver(e)
DialPressure ==
    \E e \in Events(MIDI_CHANNEL_PRESSURE, PadChannel, {100}, {0}) :
        evtype_of(e) = MIDI_CHANNEL_PRESSURE /\ Deliver(e)
DialOther ==
    \E t \in UnhandledTypes : \E e \in Events(t, PadChannel, {0}, {64}) :
        evtype_of(e) \notin HandledTypes /\ Deliver(e)

NextCC == DialNoteOn \/ DialNoteOff \/ DialCC \/ DialPressure \/ DialOther

SpecCC == Init /\ [][NextCC]_vars

\* SpecPressure: a pressure event of every value; sampled notes and dials
PressNoteOn ==
    \E e \in Events(MIDI_NOTE_ON, PadChannel, HeldSample, {100}) :
        evtype_of(e) = MIDI_NOTE_ON /\ Deliver(e)
PressNoteOff ==
    \E e \in Events(MIDI_NOTE_OFF, PadChannel, {40}, {0}) :
        evtype_of(e) = MIDI_NOTE_OFF /\ Deliver(e)
PressCC ==
    \E e \in Events(MIDI_CC, PadChannel, CCNumSample, {64}) :
        evtype_of(e) = MIDI_CC /\ Deliver(e)
PressPressure ==
    \E e \in Events(MIDI_CHANNEL_PRESSURE, PadChannel, Data7, {0}) :
        evtype_of(e) = MIDI_CHANNEL_PRESSURE /\ Deliver(e)
PressOther ==
    \E t \in UnhandledTypes : \E e \in Events(t, PadChannel, {0}, {64}) :
        evtype_of(e) \notin HandledTypes /\ Deliver(e)

NextPressure == PressNoteOn \/ PressNoteOff \/ PressCC \/ PressPressure \/ PressOther

SpecPressure == Init /\ [][NextPressure]_vars

\* SpecDispatch: every type nibble 0..15 on two channels, with data bytes
\* that have the top bit set (131 = 128 + 3, 168 = 128 + 40, 200 = 128 + 72)
DispatchChannels == {0, 9}
DispatchData1 == {3, 127, 131, 168}
DispatchData2 == {200}
AllUnhandledTypes == (0..15) \ HandledTypes

DispNoteOn ==
    \E e \in Events(MIDI_NOTE_ON, DispatchChannels, DispatchData1, DispatchData2) :
        evtype_of(e) = MIDI_NOTE_ON /\ Deliver(e)
DispNoteOff ==
    \E e \in Events(MIDI_NOTE_OFF, DispatchChannels, DispatchData1, DispatchData2) :
        evtype_of(e) = MIDI_NOTE_OFF /\ Deliver(e)
DispCC ==
    \E e \in Events(MIDI_CC, DispatchChannels, DispatchData1, DispatchData2) :
        evtype_of(e) = MIDI_CC /\ Deliver(e)
DispPressure ==
    \E e \in Events(MIDI_CHANNEL_PRESSURE, DispatchChannels, DispatchData1, DispatchData2) :
        evtype_of(e) = MIDI_CHANNEL_PRESSURE /\ Deliver(e)
DispOther ==
    \E t \in AllUnhandledTypes :
        \E e \in Events(t, DispatchChannels, DispatchData1, DispatchData2) :
            evtype_of(e) \notin HandledTypes /\ Deliver(e)

NextDispatch == DispNoteOn \/ DispNoteOff \/ DispCC \/ DispPressure \/ DispOther

SpecDispatch == Init /\ [][NextDispatch]_vars

\* SpecLevel: a dial event of every CC value on two dials; sampled rest
LevelNoteOn ==
    \E e \in Events(MIDI_NOTE_ON, PadChannel, {40}, {100}) :
        evtype_of(e) = MIDI_NOTE_ON /\ Deliver(e)
LevelNoteOff ==
    \E e \in Events(MIDI_NOTE_OFF, PadChannel, {40}, {0}) :
        evtype_of(e) = MIDI_NOTE_OFF /\ Deliver(e)
LevelCC ==
    \E e \in Events(MIDI_CC, PadChannel, {3, 13}, Data7) :
        evtype_of(e) = MIDI_CC /\ Deliver(e)
LevelPressure ==
    \E e \in Events(MIDI_CHANNEL_PRESSURE, PadChannel, {100}, {0}) :
        evtype_of(e) = MIDI_CHANNEL_PRESSURE /\ Deliver(e)
LevelOther ==
    \E t \in UnhandledTypes : \E e \in Events(t, PadChannel, {0}, {64}) :
        evtype_of(e) \notin HandledTypes /\ Deliver(e)

NextLevel == LevelNoteOn \/ LevelNoteOff \/ LevelCC \/ LevelPressure \/ LevelOther

SpecLevel == Init /\ [][NextLevel]_vars

---------------------------------------------------------------------------
(* Vocabulary of the properties *)

IsEv(type) == Len(ev) = 3 /\ evtype_of(ev) = type
IsNoteOn == IsEv(MIDI_NOTE_ON)
IsNoteOff == IsEv(MIDI_NOTE_OFF)
IsCC == IsEv(MIDI_CC)
IsPressure == IsEv(MIDI_CHANNEL_PRESSURE)

Held == lastOnOff[1] = "on"
CallsNamed(name) == {i \in 1..Len(calls) : calls[i][1] = name}
InPadRange(n) == 36 <= n /\ n <= 83

---------------------------------------------------------------------------
(* Pressure tracker *)

\* C1: a channel-pressure event of value 127 received while no note is held
\* (currentNotePressed = -1: no note-on yet, or the last note-on/note-off was
\* a note-off) issues no setPlayState call.
C1_IdlePressureNoCall ==
    (IsPressure /\ data1_of(ev) = 127 /\ ~Held /\ currentNotePressed = -1)
        => CallsNamed("setPlayState") = {}

\* C2: a channel-pressure event of value 127 whose most recent note-on or
\* note-off event was note-on(n) issues exactly the four calls
\* setPlayState(bank, n, 0) .. setPlayState(bank, n+3, 0), in that order.
C2_SceneLaunch ==
    (IsPressure /\ data1_of(ev) = 127 /\ Held)
        => LET n == lastOnOff[2]
           IN  calls = << SetPlayState(bank, n, 0), SetPlayState(bank, n + 1, 0),
                          SetPlayState(bank, n + 2, 0), SetPlayState(bank, n + 3, 0) >>

C2_Witness ==
    /\ IsPressure /\ data1_of(ev) = 127
    /\ lastOnOff = <<"on", 40>>
    /\ calls = << SetPlayState(bank, 40, 0), SetPlayState(bank, 41, 0),
                  SetPlayState(bank, 42, 0), SetPlayState(bank, 43, 0) >>

\* C3: currentNotePressed is the note of the most recent note-on when the
\* most recent note-on/note-off event was a note-on, and -1 when it was a
\* note-off (of any note) or when there was none; as the history changes on
\* note-on and note-off only, no other event changes currentNotePressed.
C3_HeldNote ==
    currentNotePressed = IF Held THEN lastOnOff[2] ELSE -1

C3_Witness ==
    /\ IsNoteOff /\ data1_of(ev) = 127
    /\ lastOnOff = <<"off", 127>>
    /\ currentNotePressed = -1

---------------------------------------------------------------------------
(* Note decoder *)

C4_Start(n) == IF n <= 51 THEN 36 ELSE IF n <= 67 THEN 52 ELSE 68
C4_Bank(n) == IF n <= 51 THEN "A" ELSE IF n <= 67 THEN "B" ELSE "C"

\* C4: for a note-on of a note n in 36..83, get_note_xy(n) is
\* (column, row, bank) with bank A for 36..51, B for 52..67, C for 68..83,
\* column = (n - s) mod 4 and row = 3 - ((n - s) div 4), s the start note of
\* the bank; 36 -> (0,3,A), 51 -> (3,0,A), 83 -> (3,0,C); and that coordinate
\* is the one looked up in the sequencer.
C4_NoteDecoding ==
    (IsNoteOn /\ InPadRange(data1_of(ev)))
        => LET n == data1_of(ev)
               s == C4_Start(n)
               xy == get_note_xy(n)
           IN  /\ xy = <<(n - s) % 4, 3 - ((n - s) \div 4), C4_Bank(n)>>
               /\ calls[1] = GetPadFromXY(xy[1], xy[2])
               /\ (n = 36 => xy = <<0, 3, "A">>)
               /\ (n = 51 => xy = <<3, 0, "A">>)
               /\ (n = 83 => xy = <<3, 0, "C">>)

C4_Witness ==
    /\ IsNoteOn /\ data1_of(ev) = 83
    /\ calls[1] = GetPadFromXY(3, 0)

---------------------------------------------------------------------------
(* CC decoder *)

C5_Mapped == {3, 9, 12} \cup (13..27)
C5_Channel(c) ==
    IF c = 3 THEN 0 ELSE IF c = 9 THEN 1 ELSE IF c = 12 THEN 2
    ELSE IF c <= 15 THEN c - 3 ELSE IF c <= 21 THEN c - 16 ELSE c - 22

\* C5: a CC event of number c in {3, 9, 12, 13..27} issues exactly one call,
\* a set_level whose channel is 0 for 3, 1 for 9, 2 for 12, c-3 for 13..15,
\* c-16 for 16..21 and c-22 for 22..27.
C5_CCDecoding ==
    (IsCC /\ data1_of(ev) \in C5_Mapped)
        => /\ Len(calls) = 1
           /\ calls[1][1] = "set_level"
           /\ calls[1][2] = C5_Channel(data1_of(ev))

C5_Witness ==
    /\ IsCC /\ data1_of(ev) = 27
    /\ calls = <<SetLevel(5, 127, 127)>>

---------------------------------------------------------------------------
(* Pad lookup *)

\* C6: on a note-on whose coordinate has no pad (get_pad_from_xy negative)
\* togglePlayState is not called; a togglePlayState issued by a note-on
\* carries the non-negative pad get_pad_from_xy returns for the note's
\* (column, row), and there is at most one.
C6_ToggleGuard ==
    IsNoteOn
        => LET xy == get_note_xy(data1_of(ev))
               pad == get_pad_from_xy(xy[1], xy[2])
           IN  /\ pad < 0 => CallsNamed("togglePlayState") = {}
               /\ \A i \in CallsNamed("togglePlayState") :
                      /\ calls[i][3] = pad
                      /\ calls[i][3] >= 0
               /\ Cardinality(CallsNamed("togglePlayState")) <= 1

C6_Witness ==
    /\ IsNoteOn /\ data1_of(ev) = 36
    /\ get_pad_from_xy(0, 3) < 0
    /\ calls = <<GetPadFromXY(0, 3)>>

\* C7: a CC event whose number is outside the dial ranges (0..2, 28..127)
\* makes no collaborator call and leaves currentNotePressed unchanged.
C7_OutOfRangeCC ==
    [][ (IsCC' /\ (data1_of(ev') <= 2 \/ data1_of(ev') >= 28))
            => (calls' = <<>> /\ currentNotePressed' = currentNotePressed) ]_vars

C7_Witness ==
    /\ IsCC /\ data1_of(ev) = 100
    /\ calls = <<>>
    /\ currentNotePressed = 40

\* C8: a channel-pressure event of a value other than 127 makes no
\* collaborator call and changes no state, held note or not.
C8_BelowThreshold ==
    [][ (IsPressure' /\ data1_of(ev') # 127)
            => (calls' = <<>> /\ UNCHANGED <<currentNotePressed, bank, col_in_bank>>) ]_vars

C8_Witness ==
    /\ IsPressure /\ data1_of(ev) = 126
    /\ calls = <<>>
    /\ currentNotePressed = 40

---------------------------------------------------------------------------
(* Notes outside the pad ranges *)

\* C9 as stated: a note-on or note-off of a note outside 36..83 leaves
\* currentNotePressed as it was.
C9_NoTransitionOutOfRange ==
    [][ ((IsNoteOn' \/ IsNoteOff') /\ ~InPadRange(data1_of(ev')))
            => currentNotePressed' = currentNotePressed ]_vars

\* C9 amended: a note-on of a note n outside 36..83 sets currentNotePressed
\* to n and a note-off of such a note sets it to -1, as for any other note.
C9_TransitionOutOfRange ==
    /\ (IsNoteOn /\ ~InPadRange(data1_of(ev))) => currentNotePressed = data1_of(ev)
    /\ (IsNoteOff /\ ~InPadRange(data1_of(ev))) => currentNotePressed = -1

C9_Witness ==
    /\ IsNoteOn /\ data1_of(ev) = 84
    /\ currentNotePressed = 84

\* C10 as stated: the coordinate a note-on passes to get_pad_from_xy has
\* column in 0..3 and row in 0..3, for every note 0..127.
C10_CoordinateInGrid ==
    IsNoteOn => (calls[1][2] \in 0..3 /\ calls[1][3] \in 0..3)

\* C10 amended: the coordinate a note-on of note n passes to get_pad_from_xy
\* has column in 0..3; its row is in 0..3 when n is in 0..15 or 36..83, and
\* is the negative number 3 - (n div 4) when n is in 16..35 or 84..127.
C10_CoordinateByRange ==
    IsNoteOn
        => LET n == data1_of(ev)
               col == calls[1][2]
               row == calls[1][3]
           IN  /\ calls[1][1] = "get_pad_from_xy"
               /\ col \in 0..3
               /\ (n <= 15 \/ InPadRange(n)) => row \in 0..3
               /\ ~(n <= 15 \/ InPadRange(n)) => (row = 3 - (n \div 4) /\ row < 0)

C10_Witness ==
    /\ IsNoteOn /\ data1_of(ev) = 127
    /\ calls[1] = GetPadFromXY(3, -28)

\* C11: for a note-on of a note n in 0..35 or 84..127 the decoder yields a
\* result: the empty bank, column = n mod 4 and row = 3 - (n div 4), the
\* coordinate against offset 0, which is the one looked up in the sequencer.
C11_OutOfRangeDecoding ==
    (IsNoteOn /\ ~InPadRange(data1_of(ev)))
        => LET n == data1_of(ev)
           IN  /\ get_note_xy(n) = <<n % 4, 3 - (n \div 4), "">>
               /\ calls[1] = GetPadFromXY(n % 4, 3 - (n \div 4))

C11_Witness ==
    /\ IsNoteOn /\ data1_of(ev) = 35
    /\ calls[1] = GetPadFromXY(3, -5)

---------------------------------------------------------------------------
(* Dispatcher *)

\* the low seven bits and the high nibble of a byte 0..255
C12_Low7(b) == IF b >= 128 THEN b - 128 ELSE b
C12_HighNibble(b) == CHOOSE t \in 0..15 : 16 * t <= b /\ b < 16 * (t + 1)

\* C12: an event whose status high nibble is none of 0x8, 0x9, 0xB, 0xD makes
\* no collaborator call and leaves currentNotePressed unchanged; a note-off,
\* note-on, control change or channel pressure has the effect of its own
\* handler applied to the data bytes masked to seven bits.
C12_Dispatch ==
    [][ Len(ev') = 3 =>
          LET t == C12_HighNibble(ev'[1])
              d1 == C12_Low7(ev'[2])
              d2 == C12_Low7(ev'[3])
              xy == get_note_xy(d1)
          IN  /\ t \notin {8, 9, 11, 13}
                    => (calls' = <<>> /\ currentNotePressed' = currentNotePressed)
              /\ t = 8 => (calls' = <<>> /\ currentNotePressed' = -1)
              /\ t = 9 => /\ currentNotePressed' = d1
                          /\ calls'[1] = GetPadFromXY(xy[1], xy[2])
              /\ t = 11 => /\ currentNotePressed' = currentNotePressed
                           /\ calls' = IF mixer_channel_of(d1) > -1
                                       THEN <<SetLevel(mixer_channel_of(d1), d2, 127)>>
                                       ELSE <<>>
              /\ t = 13 => /\ currentNotePressed' = currentNotePressed
                           /\ (calls' # <<>>) = (d1 = 127)
                           /\ \A i \in 1..Len(calls') : calls'[i][1] = "setPlayState"
      ]_vars

C12_Witness ==
    /\ Len(ev) = 3 /\ ev[1] = 14 * 16 + 9 /\ ev[2] = 168
    /\ calls = <<>>
    /\ currentNotePressed = 40
    /\ lastOnOff = <<"on", 40>>

---------------------------------------------------------------------------
(* Mixer level *)

\* C13: the level of a set_level call made for CC value v is the ratio
\* v / 127: it lies in [0, 1], is 1 for v = 127 and 0 for v = 0, and of two
\* successive set_level calls the one for the smaller CC value has the
\* strictly smaller level.
C13_Level ==
    [][ (IsCC' /\ calls' # <<>>) =>
          LET v == data2_of(ev')
              num == calls'[1][3]
              den == calls'[1][4]
          IN  /\ calls'[1][1] = "set_level" /\ Len(calls') = 1
              /\ den > 0
              /\ num * 127 = v * den
              /\ 0 <= num /\ num <= den
              /\ v = 127 => num = den
              /\ v = 0 => num = 0
              /\ (IsCC /\ calls # <<>> /\ data2_of(ev) < v)
                    => calls[1][3] * den < num * calls[1][4]
      ]_vars

C13_Witness ==
    /\ IsCC /\ data2_of(ev) = 64
    /\ calls = <<SetLevel(10, 64, 127)>>

---------------------------------------------------------------------------
(* Banks of the device *)

\* the device bank (0 = A, 1 = B, 2 = C) of a pad note 36..83, of a dial CC 3..27
C14_PadBank(n) == IF n <= 51 THEN 0 ELSE IF n <= 67 THEN 1 ELSE 2
C15_DialBank(c) == IF c <= 15 THEN 0 ELSE IF c <= 21 THEN 1 ELSE 2

\* C14: with the 4x4 sequencer grid the driver assumes, a note-on of pad
\* bank A toggles one of pads 1-16, of bank B one of pads 17-32, of bank C
\* one of pads 33-48 (indices 0..15, 16..31, 32..47), and two successive
\* note-ons at the same grid position of different pad banks do not toggle
\* the same (bank, pad).
C14_BanksLaunchDifferentPads ==
    [][ (col_in_bank = 4 /\ IsNoteOn' /\ InPadRange(data1_of(ev')) /\ Len(calls') = 2) =>
          LET n2 == data1_of(ev')
              k == C14_PadBank(n2)
              n1 == data1_of(ev)
          IN  /\ calls'[2][3] \in (16 * k)..(16 * k + 15)
              /\ (/\ IsNoteOn /\ InPadRange(n1) /\ Len(calls) = 2
                  /\ C14_PadBank(n1) # k
                  /\ (n1 - 36) % 16 = (n2 - 36) % 16)
                    => calls[2] # calls'[2]
      ]_vars

\* C15: a dial of CTRL bank A sets one of mixer channels 1-6, of bank B one
\* of 7-12, of bank C one of 13-18 (indices 0..5, 6..11, 12..17), and two
\* successive dial events of different CTRL banks do not set the level of the
\* same mixer channel.
C15_BanksSetDifferentChannels ==
    [][ (IsCC' /\ calls' # <<>>) =>
          LET k == C15_DialBank(data1_of(ev'))
          IN  /\ calls'[1][2] \in (6 * k)..(6 * k + 5)
              /\ (IsCC /\ calls # <<>> /\ C15_DialBank(data1_of(ev)) # k)
                    => calls[1][2] # calls'[1][2]
      ]_vars

---------------------------------------------------------------------------
(* Scene launch and tap *)

\* the pad index the note-on of note n resolves in the sequencer
PadOfNote(n) == get_pad_from_xy(get_note_xy(n)[1], get_note_xy(n)[2])

\* C16: with the 4x4 sequencer grid the driver assumes, on a channel-pressure
\* event of value 127 while a pad note 36..83 whose note-on toggled pad p is
\* held, the four setPlayState calls carry the pad indices p, p+1, p+2, p+3.
C16_SceneStartsAtHitPad ==
    (/\ col_in_bank = 4
     /\ IsPressure /\ data1_of(ev) = 127
     /\ Held /\ InPadRange(lastOnOff[2]) /\ PadOfNote(lastOnOff[2]) >= 0)
        => LET p == PadOfNote(lastOnOff[2])
           IN  calls = << SetPlayState(bank, p, 0), SetPlayState(bank, p + 1, 0),
                          SetPlayState(bank, p + 2, 0), SetPlayState(bank, p + 3, 0) >>

\* C17: a note-on whose coordinate resolves to a pad p >= 0 issues exactly
\* one togglePlayState call, togglePlayState(bank, p); a note-off issues no
\* collaborator call at all.
C17_TapTogglesOnce ==
    /\ (IsNoteOn /\ PadOfNote(data1_of(ev)) >= 0)
          => /\ Cardinality(CallsNamed("togglePlayState")) = 1
             /\ \A i \in CallsNamed("togglePlayState") :
                    calls[i] = TogglePlayState(bank, PadOfNote(data1_of(ev)))
    /\ IsNoteOff => calls = <<>>

C17_Witness ==
    /\ IsNoteOn /\ data1_of(ev) = 40
    /\ calls = <<GetPadFromXY(0, 2), TogglePlayState(bank, 2)>>

\* C18: a CC event whose number is in bank A's range but has no mapping
\* (4..8, 10, 11) makes no set_level call (and no call at all).
C18_UnmappedBankA ==
    (IsCC /\ data1_of(ev) \in ((4..8) \cup {10, 11})) => calls = <<>>

C18_Witness ==
    /\ IsCC /\ data1_of(ev) = 10 /\ data2_of(ev) = 127
    /\ calls = <<>>

\* C19: a channel-pressure event of value 127 that follows, with no note-on
\* or note-off in between, the note-on of a note n whose toggle was skipped
\* (no pad at its coordinate) or which lies outside 36..83 issues the four
\* calls setPlayState(bank, n, 0) .. setPlayState(bank, n+3, 0).
C19_SkippedToggleStillHeld ==
    (/\ IsPressure /\ data1_of(ev) = 127 /\ Held
     /\ (PadOfNote(lastOnOff[2]) < 0 \/ ~InPadRange(lastOnOff[2])))
        => LET n == lastOnOff[2]
           IN  /\ currentNotePressed = n
               /\ Len(calls) = 4
               /\ \A i \in 1..4 : calls[i] = SetPlayState(bank, n + i - 1, 0)

C19_Witness ==
    /\ IsPressure /\ data1_of(ev) = 127
    /\ lastOnOff = <<"on", 84>>
    /\ PadOfNote(84) < 0
    /\ calls[1] = SetPlayState(bank, 84, 0)
    /\ calls[4] = SetPlayState(bank, 87, 0)

\* the four calls of a scene launched for held note n
SceneCalls(n) ==
    << SetPlayState(bank, n, 0), SetPlayState(bank, n + 1, 0),
       SetPlayState(bank, n + 2, 0), SetPlayState(bank, n + 3, 0) >>

\* C20: while a note n is held (the most recent note-on/note-off event is
\* note-on(n)), maximum-pressure events leave currentNotePressed at n, each
\* of them issues the four calls setPlayState(bank, n..n+3, 0), and the k of
\* them received so far have issued 4k setPlayState calls; a note-off
\* returns currentNotePressed to -1.
C20_NotLatched ==
    /\ Held => /\ currentNotePressed = lastOnOff[2]
               /\ launched[2] = 4 * launched[1]
               /\ (IsPressure /\ data1_of(ev) = 127)
                     => (calls = SceneCalls(lastOnOff[2]) /\ launched[1] >= 1)
    /\ IsNoteOff => (currentNotePressed = -1 /\ launched = <<0, 0>>)

C20_Witness ==
    /\ IsPressure /\ data1_of(ev) = 127
    /\ lastOnOff = <<"on", 40>>
    /\ launched = <<2, 8>>
    /\ calls = SceneCalls(40)

=============================================================================
